---- MODULE Spec2Model ----
(***************************************************************************)
(* State-machine model of the GeeTest captcha session of SakuraFrpQiandao  *)
(* (src/sakurafrp.py): CaptchaHandler.handle_geetest_captcha and the       *)
(* helpers it drives, the caller CheckInAutomation._perform_checkin and    *)
(* run, and the reading of the log by send_log_email (src/send_email.py).  *)
(***************************************************************************)
EXTENDS Integers, Sequences, FiniteSets, TLC

\* ------------------------------------------------------------------ bounds
\* polling cycles of _wait_for_verification_result before the 10 s timeout
MaxPolls == 2
\* captured requests held by driver.requests at one time
MaxBuf == 2
\* length of a callback identifier, in tokens
MaxIdLen == 2
\* length of a label of the recognised grid, in characters
MaxLabelLen == 2
\* captured requests held by driver.requests at one time, under SpecFair
MaxFairBuf == 1
\* rounds of the loop of lines 358-364 before max_wait (3 s) has passed
MaxSubmitPolls == 1

\* ------------------------------------------------------- program constants
max_retries == 3

\* ------------------------------------------------------------------ domain
None == "None"

\* A callback identifier is a sequence of tokens: the literal "geetest_",
\* the literal "callback_", or one decimal digit ("d").
IdTok == {"geetest_", "callback_", "d"}

Identifiers == UNION {[1..n -> IdTok] : n \in 0..MaxIdLen}

\* Decoded JSON bodies, as far as the parser looks into them.
\*   kind   : "invalid" (json.loads raises), "array" (valid JSON, not an
\*            object), "object"
\*   status : top-level "status" ("absent" when the key is missing)
\*   data   : top-level "data": "absent", "string" (not an object), "object"
\*   result : data.result ("absent" when the key is missing)
JsonValues ==
    {[kind |-> "invalid", status |-> "absent", data |-> "absent", result |-> "absent"],
     [kind |-> "array", status |-> "absent", data |-> "absent", result |-> "absent"]}
    \cup {[kind |-> "object", status |-> s, data |-> d, result |-> "absent"] :
            s \in {"absent", "success", "fail", "error"}, d \in {"absent", "string"}}
    \cup {[kind |-> "object", status |-> s, data |-> "object", result |-> r] :
            s \in {"absent", "success", "fail", "error"},
            r \in {"absent", "success", "fail", "other"}}

\* A response body: identifier, then (when paren) "(" json ")".
\*   paren   : the body has the form identifier(<json>); FALSE is a bare
\*             <json> text with no wrapper
\*   oneline : no line break between "(" and the closing ")"
Payloads ==
    {[cb |-> c, paren |-> p, oneline |-> o, json |-> j] :
        c \in Identifiers, p \in BOOLEAN, o \in BOOLEAN, j \in JsonValues}

\* re.search(r'geetest_\d+\((.*)\)', body): the text right before "(" must
\* be "geetest_" followed by one or more digits; "." matches no line break.
DigitsFrom(cb, i) == \A k \in i..Len(cb) : cb[k] = "d"

EndsWithGeetestDigits(cb) ==
    \E i \in 1..Len(cb) : /\ cb[i] = "geetest_"
                          /\ i < Len(cb)
                          /\ DigitsFrom(cb, i + 1)

WrapperMatch(p) == p.paren /\ p.oneline /\ EndsWithGeetestDigits(p.cb)

\* Lines 419-434: the verdict one candidate body yields, None when it yields
\* none (no match, json.loads or .get raising, status or result not accepted).
ParseResponseNoStatusMut(p) ==
    IF ~WrapperMatch(p) THEN None
    ELSE IF p.json.kind # "object" THEN None
    ELSE IF p.json.data # "object" THEN None
    ELSE IF p.json.result = "success" THEN "success"
    ELSE IF p.json.result = "fail" THEN "fail"
    ELSE None

ParseResponseNoFailMut(p) ==
    IF ~WrapperMatch(p) THEN None
    ELSE IF p.json.kind # "object" THEN None
    ELSE IF p.json.status # "success" THEN None
    ELSE IF p.json.data # "object" THEN None
    ELSE IF p.json.result = "success" THEN "success"
    ELSE None

ParseResponse(p) ==
    IF ~WrapperMatch(p) THEN None
    ELSE IF p.json.kind # "object" THEN None
    ELSE IF p.json.status # "success" THEN None
    ELSE IF p.json.data # "object" THEN None
    ELSE IF p.json.result = "success" THEN "success"
    ELSE IF p.json.result = "fail" THEN "fail"
    ELSE None

\* --------------------------------------------------------- captured traffic
Body(c, k, s, d, r) ==
    [cb |-> c, paren |-> TRUE, oneline |-> TRUE,
     json |-> [kind |-> k, status |-> s, data |-> d, result |-> r]]

\* The bodies the verification endpoint is let to answer with in a session.
SessionPayloads ==
    {Body(<<"geetest_", "d">>, "object", "success", "object", "success"),
     Body(<<"geetest_", "d">>, "object", "success", "object", "fail"),
     Body(<<"geetest_", "d">>, "object", "error", "object", "success")}

\* A captured request: url is TRUE when request.url contains
\* 'api.geevisit.com/ajax.php', response is TRUE when request.response is set.
SessionRequests ==
    {[url |-> TRUE, response |-> TRUE, body |-> p] : p \in SessionPayloads}
    \cup {[url |-> FALSE, response |-> TRUE,
           body |-> Body(<<"geetest_", "d">>, "object", "success", "object", "success")]}

\* Line 412: the requests whose response the scan looks into.
IsCandidate(r) == r.response /\ r.url

RECURSIVE ScanRequestsLastMut(_)
ScanRequestsLastMut(reqs) ==
    IF reqs = <<>> THEN None
    ELSE LET v == IF IsCandidate(Head(reqs)) THEN ParseResponse(Head(reqs).body)
                  ELSE None
             w == ScanRequestsLastMut(Tail(reqs))
         IN  IF w # None THEN w ELSE v

\* Lines 411-437: one pass over driver.requests, in order; the first
\* candidate that yields a verdict ends the pass, the others are skipped.
RECURSIVE ScanRequests(_)
ScanRequests(reqs) ==
    IF reqs = <<>> THEN None
    ELSE LET v == IF IsCandidate(Head(reqs)) THEN ParseResponse(Head(reqs).body)
                  ELSE None
         IN  IF v # None THEN v ELSE ScanRequests(Tail(reqs))

\* ------------------------------------------------------------------ grids
\* A label is a sequence of characters; " " is white space.
RECURSIVE LStrip(_)
LStrip(s) == IF s # <<>> /\ Head(s) = " " THEN LStrip(Tail(s)) ELSE s

RECURSIVE RStrip(_)
RStrip(s) ==
    IF s # <<>> /\ s[Len(s)] = " " THEN RStrip(SubSeq(s, 1, Len(s) - 1)) ELSE s

\* str.strip()
Strip(s) == RStrip(LStrip(s))

\* recognition_result.get(str(k), "")
Get(grid, k) == IF k \in DOMAIN grid THEN grid[k] ELSE <<>>

\* Line 297
TargetName(grid) == Strip(Get(grid, 10))

MatchingPositionsNoStripMut(grid) ==
    {i \in 1..9 : Get(grid, i) # <<>> /\ Get(grid, i) = Get(grid, 10)}

MatchingPositionsIgnoreCaseMut(grid) ==
    LET Lower(s) == [i \in DOMAIN s |-> IF s[i] = "C" THEN "c" ELSE s[i]]
    IN  {i \in 1..9 : /\ Strip(Get(grid, i)) # <<>>
                      /\ Lower(Strip(Get(grid, i))) = Lower(TargetName(grid))}

\* Lines 316-323: the positions whose click is attempted.
MatchingPositions(grid) ==
    {i \in 1..9 : /\ Strip(Get(grid, i)) # <<>>
                  /\ Strip(Get(grid, i)) = TargetName(grid)}

Grid(l1, l2, l10) ==
    [i \in 1..10 |-> IF i = 1 THEN l1
                     ELSE IF i = 2 THEN l2
                     ELSE IF i = 10 THEN l10
                     ELSE <<"e">>]

NoGrid == [i \in {} |-> <<>>]

\* The grids the vision model is let to answer with in a session.
SessionGrids ==
    {Grid(<<"c">>, <<"d">>, <<"c">>),
     Grid(<<"c">>, <<" ", "c">>, <<"c", " ">>),
     Grid(<<"d">>, <<"d">>, <<"c">>),
     Grid(<<"c">>, <<"d">>, <<" ">>),
     [i \in 1..9 |-> <<"c">>]}

\* ------------------------------------------------------------------- state
VARIABLES
    pc,          \* position of the single thread of control
    attempt,     \* loop variable of handle_geetest_captcha (0: not yet bound)
    widget,      \* the page's geetest_widget: "visible", "hidden" (or gone)
    traffic,     \* TRUE once a click may have made the page call the endpoint
    buffer,      \* driver.requests
    polls,       \* cycles of the polling loop begun in this attempt
    grid,        \* recognition_result of this attempt
    reply,       \* kind of the vision model's reply in this attempt ("none": not asked)
    clicked,     \* grid positions whose click was dispatched in this attempt
    plan,        \* grid positions the loop of lines 316-337 took as matching
    submit,      \* submit control of this attempt: "none" (not settled yet),
                 \* "absent" (never found), "enabled" or "disabled" (clicked
                 \* in that state), "vanished" (lost while polled)
    waited,      \* rounds of the loop of lines 358-364 gone through
    verdict,     \* verification_result of this attempt
    result,      \* return value of handle_geetest_captcha
    checkin,     \* return value of _perform_checkin
    log,         \* markers of the lines written to checkin.log
    outcomes,    \* how each attempt so far ended, in order
    refreshLog,  \* calls of _refresh_captcha, in order
    modelCalls   \* calls of the vision model

vars == <<pc, attempt, widget, traffic, buffer, polls, grid, reply, clicked, plan, submit, waited,
          verdict, result, checkin, log, outcomes, refreshLog, modelCalls>>

Init ==
    /\ pc = "idle"
    /\ attempt = 0
    /\ widget \in {"hidden", "visible"}
    /\ traffic = FALSE
    /\ buffer = <<>>
    /\ polls = 0
    /\ grid = NoGrid
    /\ reply = "none"
    /\ clicked = {}
    /\ plan = {}
    /\ submit = "none"
    /\ waited = 0
    /\ verdict = None
    /\ result = None
    /\ checkin = None
    /\ log = {}
    /\ outcomes = <<>>
    /\ refreshLog = <<>>
    /\ modelCalls = 0

InSession == pc \notin {"idle", "returned", "done"}

\* --------------------------------------------------------- the environment
\* The host page shows, hides or removes the captcha widget.
PageChange(w) ==
    /\ InSession
    /\ w # widget
    /\ widget' = w
    /\ UNCHANGED <<pc, attempt, traffic, buffer, polls, grid, reply, clicked, plan, submit, waited,
                   verdict, result, checkin, log, outcomes, refreshLog,
                   modelCalls>>

\* Where the handler stands when a request is captured: "cells" between the
\* cell clicks of lines 323-335 and the click of line 367, "submit" between
\* that click and line 407, "poll" from line 407 on.
Phase ==
    IF pc = "clear" /\ submit \in {"enabled", "disabled"} THEN "submit"
    ELSE IF pc \in {"submit", "submit_poll", "clear"} THEN "cells"
    ELSE "poll"

\* The entry of driver.requests for request r, with the attempt and the
\* phase in which selenium-wire captured it.
Captured(r, a, ph) ==
    [url |-> r.url, response |-> r.response, body |-> r.body,
     at |-> a, by |-> ph]

\* selenium-wire captures one more request of the controlled browser: the
\* page calls the endpoint in answer to the clicks of the attempt.
ResponseArrives(r) ==
    /\ pc \in {"submit", "submit_poll", "clear", "poll", "scan", "widget"}
    /\ traffic
    /\ Len(buffer) < MaxBuf
    /\ buffer' = Append(buffer, Captured(r, attempt, Phase))
    /\ UNCHANGED <<pc, attempt, widget, traffic, polls, grid, reply, clicked, plan, submit, waited,
                   verdict, result, checkin, log, outcomes, refreshLog,
                   modelCalls>>

\* -------------------------------------------------- handle_geetest_captcha
\* _perform_checkin clicks the check-in button and calls the handler; the
\* for loop binds attempt to 1.
StartSession ==
    /\ pc = "idle"
    /\ pc' = "detect"
    /\ attempt' = 1
    /\ UNCHANGED <<widget, traffic, buffer, polls, grid, reply, clicked, plan, submit, waited,
                   verdict, result, checkin, log, outcomes, refreshLog,
                   modelCalls>>

\* A return statement of the handler: its locals (other than the loop
\* variable, kept for the record) go out of scope.
Return(value) ==
    /\ result' = value
    /\ pc' = "returned"
    /\ grid' = NoGrid
    /\ reply' = "none"
    /\ clicked' = {}
    /\ plan' = {}
    /\ submit' = "none"
    /\ waited' = 0
    /\ verdict' = None
    /\ polls' = 0

ReturnOnTimeoutRetryMut(kind) ==
    /\ outcomes' = Append(outcomes, kind)
    /\ log' = log
    /\ pc' = "refresh"
    /\ UNCHANGED <<result, grid, reply, clicked, plan, submit, waited, verdict, polls>>

\* The except TimeoutException clause, lines 226-228: log, return False.
ReturnOnTimeout(kind) ==
    /\ outcomes' = Append(outcomes, kind)
    /\ log' = log \cup {"widget_not_detected"}
    /\ Return("False")

\* Line 179: wait.until(visibility of geetest_widget). err: the wait raises
\* something other than TimeoutException.
DetectWidget(err) ==
    /\ pc = "detect"
    /\ IF err
       THEN /\ outcomes' = Append(outcomes, "Error")
            /\ pc' = "except"
            /\ UNCHANGED <<log, result, grid, reply, clicked, plan, submit, waited, verdict, polls>>
       ELSE IF widget = "visible"
       THEN /\ pc' = "image"
            /\ UNCHANGED <<outcomes, log, result, grid, reply, clicked, plan, submit, waited,
                           verdict, polls>>
       ELSE ReturnOnTimeout(IF attempt = 1 THEN "NotPresented" ELSE "DetectTimeout")
    /\ UNCHANGED <<attempt, widget, traffic, buffer, checkin, refreshLog,
                   modelCalls>>

\* The missing-URL branch, lines 188-190: continue.
ContinueNoUrl ==
    /\ outcomes' = Append(outcomes, "NoUrl")
    /\ pc' = "next"

\* Lines 183-190: wait for geetest_item_img and read its src.
\*   img: "url", "nourl" (src empty or missing), "timeout" (the wait raises
\*   TimeoutException), "error" (the wait or get_attribute raises otherwise)
LocateImage(img) ==
    /\ pc = "image"
    /\ CASE img = "url" ->
              /\ pc' = "recognize"
              /\ UNCHANGED <<outcomes, log, result, grid, reply, clicked, plan, submit, waited,
                             verdict, polls>>
         [] img = "nourl" ->
              /\ ContinueNoUrl
              /\ UNCHANGED <<log, result, grid, reply, clicked, plan, submit, waited, verdict, polls>>
         [] img = "timeout" ->
              ReturnOnTimeout("ImageTimeout")
         [] img = "error" ->
              /\ outcomes' = Append(outcomes, "Error")
              /\ pc' = "except"
              /\ UNCHANGED <<log, result, grid, reply, clicked, plan, submit, waited, verdict, polls>>
    /\ UNCHANGED <<attempt, widget, traffic, buffer, checkin, refreshLog,
                   modelCalls>>

\* What the vision model call comes back with:
\*   "api_error"  the call raises
\*   "no_brace"   text that does not start with "{"
\*   "bad_json"   text that starts with "{" and json.loads rejects
\*   "empty"      the text "{}"
\*   "grid"       a JSON object of labels
ModelResponses ==
    {[kind |-> k, grid |-> NoGrid] : k \in {"api_error", "no_brace", "bad_json", "empty"}}
    \cup {[kind |-> "grid", grid |-> g] : g \in SessionGrids}

\* Lines 242-282: the value _recognize_captcha returns; NoGrid stands for
\* None (every except clause, and the falsy {} of line 271).
recognize_captcha(resp) == IF resp.kind = "grid" THEN resp.grid ELSE NoGrid

RecognizeCaptchaNoneOnlyMut(resp) ==
    /\ pc = "recognize"
    /\ modelCalls' = modelCalls + 1
    /\ reply' = resp.kind
    /\ IF resp.kind \notin {"grid", "empty"}
       THEN /\ outcomes' = Append(outcomes, "RecognitionError")
            /\ pc' = "refresh"
            /\ grid' = grid
       ELSE /\ grid' = resp.grid
            /\ pc' = "click"
            /\ outcomes' = outcomes
    /\ UNCHANGED <<attempt, widget, traffic, buffer, polls, clicked, plan, submit, waited,
                   verdict, result, checkin, log, refreshLog>>

RecognizeCaptchaFallThroughMut(resp) ==
    /\ pc = "recognize"
    /\ modelCalls' = modelCalls + 1
    /\ reply' = resp.kind
    /\ pc' = "click"
    /\ grid' = recognize_captcha(resp)
    /\ outcomes' = outcomes
    /\ UNCHANGED <<attempt, widget, traffic, buffer, polls, clicked, plan, submit, waited,
                   verdict, result, checkin, log, refreshLog>>

RecognizeCaptchaRetryMut(resp) ==
    /\ pc = "recognize"
    /\ modelCalls' = modelCalls + (IF resp.kind \in {"no_brace", "bad_json"} THEN 2 ELSE 1)
    /\ reply' = resp.kind
    /\ IF recognize_captcha(resp) = NoGrid
       THEN /\ outcomes' = Append(outcomes, "RecognitionError")
            /\ pc' = "refresh"
            /\ grid' = grid
       ELSE /\ grid' = recognize_captcha(resp)
            /\ pc' = "click"
            /\ outcomes' = outcomes
    /\ UNCHANGED <<attempt, widget, traffic, buffer, polls, clicked, plan, submit, waited,
                   verdict, result, checkin, log, refreshLog>>

\* Lines 195-200
RecognizeCaptcha(resp) ==
    /\ pc = "recognize"
    /\ modelCalls' = modelCalls + 1
    /\ reply' = resp.kind
    /\ IF recognize_captcha(resp) = NoGrid
       THEN /\ outcomes' = Append(outcomes, "RecognitionError")
            /\ pc' = "refresh"
            /\ grid' = grid
       ELSE /\ grid' = recognize_captcha(resp)
            /\ pc' = "click"
            /\ outcomes' = outcomes
    /\ UNCHANGED <<attempt, widget, traffic, buffer, polls, clicked, plan, submit, waited,
                   verdict, result, checkin, log, refreshLog>>

\* Lines 295-343 of _click_captcha_items: the cell clicks.
\*   found   : find_elements returned at least 9 geetest_item elements
\*   failing : the positions whose execute_script click raises
\* The value is the set of positions clicked, and whether the stage goes on
\* to the submit control (clicked_count > 0).
CellsClicked(g, found, failing) ==
    IF TargetName(g) = <<>> \/ ~found THEN {}
    ELSE MatchingPositions(g) \ failing

\* The positions the loop of lines 316-337 tries to click: none when line
\* 299 or line 310 returns before the loop.
ClickPlan(g, found) ==
    IF TargetName(g) = <<>> \/ ~found THEN {} ELSE MatchingPositions(g)

ClickCells(found, failing) ==
    /\ pc = "click"
    /\ failing \subseteq MatchingPositions(grid)
    /\ clicked' = CellsClicked(grid, found, failing)
    /\ plan' = ClickPlan(grid, found)
    /\ traffic' = (traffic \/ clicked' # {})
    /\ IF clicked' = {}
       THEN /\ outcomes' = Append(outcomes,
                  IF TargetName(grid) = <<>> THEN "EmptyPlan"
                  ELSE IF ~found THEN "TooFewItems"
                  ELSE IF MatchingPositions(grid) = {} THEN "EmptyPlan"
                  ELSE "ClickError")
            /\ pc' = "refresh"
       ELSE /\ pc' = "submit"
            /\ outcomes' = outcomes
    /\ UNCHANGED <<attempt, widget, buffer, polls, grid, reply, submit, waited, verdict,
                   result, checkin, log, refreshLog, modelCalls>>

\* Lines 345-377 of _click_captcha_items: the submit control, as the code
\* finds it when it looks.
\*   "absent"    the presence wait of line 347 raises TimeoutException
\*   "enabled"   the class read has no geetest_disable
\*   "disabled"  the class read has geetest_disable
\*   "vanished"  find_element (line 364) raises
\*   "error"     get_attribute or the click raises
SubmitStates == {"absent", "enabled", "disabled", "vanished", "error"}

\* Lines 345-355 and the first test of line 358. An absent control ends the
\* stage with True and no click (lines 371-373); an enabled one is clicked at
\* once (lines 367-369); a disabled one opens the loop of lines 358-364.
SubmitControl(s) ==
    /\ pc = "submit"
    /\ s # "vanished"
    /\ waited' = 0
    /\ IF s = "error"
       THEN /\ outcomes' = Append(outcomes, "ClickError")
            /\ pc' = "refresh"
            /\ submit' = submit
       ELSE /\ submit' = IF s = "disabled" THEN "none" ELSE s
            /\ pc' = IF s = "disabled" THEN "submit_poll" ELSE "clear"
            /\ outcomes' = outcomes
    /\ UNCHANGED <<attempt, widget, traffic, buffer, polls, grid, reply, clicked, plan,
                   verdict, result, checkin, log, refreshLog, modelCalls>>

SubmitExpiredAtOnceMut(w) == TRUE

\* Line 359: time.time() - start_time > max_wait, the 3 s of line 356 taken
\* as MaxSubmitPolls rounds of the loop.
SubmitExpired(w) == w >= MaxSubmitPolls

\* One round of the loop of lines 358-364 on a control last seen disabled.
\* Once the bound has passed, lines 360-361 warn and leave the loop, and
\* line 367 clicks the control as it is. Before that the round sleeps, looks
\* the control up again and reads its class: enabled ends the loop with the
\* click, disabled starts another round.
SubmitPoll(s) ==
    /\ pc = "submit_poll"
    /\ IF SubmitExpired(waited)
       THEN /\ s \in {"disabled", "error"}
            /\ waited' = 0
            /\ IF s = "error"
               THEN /\ outcomes' = Append(outcomes, "ClickError")
                    /\ pc' = "refresh"
                    /\ submit' = submit
               ELSE /\ submit' = "disabled"
                    /\ pc' = "clear"
                    /\ outcomes' = outcomes
       ELSE /\ s \in {"enabled", "disabled", "vanished", "error"}
            /\ IF s \in {"vanished", "error"}
               THEN /\ outcomes' = Append(outcomes, "ClickError")
                    /\ pc' = "refresh"
                    /\ submit' = IF s = "vanished" THEN "vanished" ELSE submit
                    /\ waited' = 0
               ELSE IF s = "enabled"
               THEN /\ submit' = "enabled"
                    /\ pc' = "clear"
                    /\ outcomes' = outcomes
                    /\ waited' = 0
               ELSE /\ waited' = waited + 1
                    /\ UNCHANGED <<pc, submit, outcomes>>
    /\ UNCHANGED <<attempt, widget, traffic, buffer, polls, grid, reply, clicked, plan,
                   verdict, result, checkin, log, refreshLog, modelCalls>>

\* --------------------------------------------- _wait_for_verification_result
ClearRequestsKeepMut(err) ==
    /\ pc = "clear"
    /\ polls' = 0
    /\ clicked' = {}
    /\ plan' = {}
    /\ submit' = "none"
    /\ waited' = 0
    /\ grid' = NoGrid
    /\ reply' = "none"
    /\ buffer' = buffer
    /\ IF err
       THEN verdict' = "timeout" /\ pc' = "handle"
       ELSE verdict' = verdict /\ pc' = "poll"
    /\ UNCHANGED <<attempt, widget, traffic, result, checkin, log,
                   outcomes, refreshLog, modelCalls>>

\* Line 407: del driver.requests. err: the statement raises, and the outer
\* except clause of lines 454-456 returns "timeout". _click_captcha_items has
\* returned True by now, its locals are gone, and recognition_result is not
\* read again in this attempt.
ClearRequests(err) ==
    /\ pc = "clear"
    /\ polls' = 0
    /\ clicked' = {}
    /\ plan' = {}
    /\ submit' = "none"
    /\ waited' = 0
    /\ grid' = NoGrid
    /\ reply' = "none"
    /\ IF err
       THEN /\ verdict' = "timeout"
            /\ pc' = "handle"
            /\ buffer' = buffer
       ELSE /\ buffer' = <<>>
            /\ pc' = "poll"
            /\ verdict' = verdict
    /\ UNCHANGED <<attempt, widget, traffic, result, checkin, log,
                   outcomes, refreshLog, modelCalls>>

PollHeadNoDeadlineMut(expired) ==
    /\ pc = "poll"
    /\ polls' = IF polls < MaxPolls THEN polls + 1 ELSE polls
    /\ pc' = "scan"
    /\ verdict' = verdict
    /\ UNCHANGED <<attempt, widget, traffic, buffer, grid, reply, clicked, plan, submit, waited,
                   result, checkin, log, outcomes, refreshLog, modelCalls>>

\* Line 409: the loop condition; lines 451-452 once the 10 s have passed.
\* The clock lets at least one cycle and at most MaxPolls cycles begin.
PollHead(expired) ==
    /\ pc = "poll"
    /\ expired \in {polls >= MaxPolls} \cup (IF polls >= 1 THEN {TRUE} ELSE {})
    /\ IF expired
       THEN /\ verdict' = "timeout"
            /\ pc' = "handle"
            /\ polls' = polls
       ELSE /\ polls' = polls + 1
            /\ pc' = "scan"
            /\ verdict' = verdict
    /\ UNCHANGED <<attempt, widget, traffic, buffer, grid, reply, clicked, plan, submit, waited,
                   result, checkin, log, outcomes, refreshLog, modelCalls>>

\* Lines 411-437: the pass over the captured requests.
ScanBuffer ==
    /\ pc = "scan"
    /\ IF ScanRequests(buffer) # None
       THEN /\ verdict' = ScanRequests(buffer)
            /\ pc' = "handle"
       ELSE /\ pc' = "widget"
            /\ verdict' = verdict
    /\ log' = IF ScanRequests(buffer) = "success" THEN log \cup {"api_success"}
              ELSE log
    /\ UNCHANGED <<attempt, widget, traffic, buffer, polls, grid, reply, clicked, plan,
                   submit, waited, result, checkin, outcomes, refreshLog,
                   modelCalls>>

WidgetVerdictNeverMut(w) == None

\* Lines 440-449: the widget check that ends a cycle.
WidgetVerdict(w) == IF w # "visible" THEN "closed" ELSE None

CheckWidget ==
    /\ pc = "widget"
    /\ IF WidgetVerdict(widget) # None
       THEN /\ verdict' = WidgetVerdict(widget)
            /\ pc' = "handle"
       ELSE /\ pc' = "poll"
            /\ verdict' = verdict
    /\ UNCHANGED <<attempt, widget, traffic, buffer, polls, grid, reply, clicked, plan,
                   submit, waited, result, checkin, log, outcomes, refreshLog,
                   modelCalls>>

\* Lines 215-224: what the handler does with verification_result:
\* "return_true_verified", "refresh", "return_true_closed".
VerdictBranch(v) ==
    IF v = "success" THEN "return_true_verified"
    ELSE IF v = "fail" THEN "refresh"
    ELSE "return_true_closed"

OutcomeOf(v) ==
    CASE v = "success" -> "Success"
      [] v = "fail" -> "Fail"
      [] v = "closed" -> "Closed"
      [] v = "timeout" -> "Timeout"

HandleVerdict ==
    /\ pc = "handle"
    /\ outcomes' = Append(outcomes, OutcomeOf(verdict))
    /\ CASE VerdictBranch(verdict) = "return_true_verified" ->
              /\ log' = log \cup {"captcha_verified"}
              /\ Return("True")
         [] VerdictBranch(verdict) = "refresh" ->
              /\ pc' = "refresh"
              /\ UNCHANGED <<log, result, grid, reply, clicked, plan, submit, waited, verdict, polls>>
         [] VerdictBranch(verdict) = "return_true_closed" ->
              /\ log' = log \cup {"closed_assumed_success"}
              /\ Return("True")
    /\ UNCHANGED <<attempt, widget, traffic, buffer, checkin, refreshLog,
                   modelCalls>>

\* Lines 229-237: the except Exception clause.
HandleException ==
    /\ pc = "except"
    /\ pc' = IF attempt < max_retries THEN "refresh" ELSE "next"
    /\ UNCHANGED <<attempt, widget, traffic, buffer, polls, grid, reply, clicked, plan,
                   submit, waited, verdict, result, checkin, log, outcomes, refreshLog,
                   modelCalls>>

\* Lines 379-390: _refresh_captcha, recorded with the attempt that calls it
\* (an error while clicking the control is logged and swallowed there).
RefreshCaptcha ==
    /\ pc = "refresh"
    /\ refreshLog' = Append(refreshLog, attempt)
    /\ pc' = "next"
    /\ UNCHANGED <<attempt, widget, traffic, buffer, polls, grid, reply, clicked, plan,
                   submit, waited, verdict, result, checkin, log, outcomes, modelCalls>>

HasNextMut(a) == a < max_retries + 1

\* Line 174: range(1, self.max_retries + 1), the value after a.
HasNext(a) == a < max_retries

\* Line 174: the for loop takes its next value; the locals of the attempt
\* are rebound in the new iteration.
NextAttempt ==
    /\ pc = "next"
    /\ HasNext(attempt)
    /\ attempt' = attempt + 1
    /\ pc' = "detect"
    /\ grid' = NoGrid
    /\ reply' = "none"
    /\ clicked' = {}
    /\ plan' = {}
    /\ submit' = "none"
    /\ waited' = 0
    /\ verdict' = None
    /\ polls' = 0
    /\ UNCHANGED <<widget, traffic, buffer, result, checkin, log, outcomes,
                   refreshLog, modelCalls>>

\* Lines 239-240: the loop is over.
ExhaustedRetries ==
    /\ pc = "next"
    /\ ~HasNext(attempt)
    /\ log' = log \cup {"max_retries_reached"}
    /\ Return("False")
    /\ UNCHANGED <<attempt, widget, traffic, buffer, checkin, outcomes,
                   refreshLog, modelCalls>>

\* ------------------------------------------------------------- the caller
\* Lines 605-611 of _perform_checkin, the value it returns for captcha_result.
perform_checkin(captcha_result) == captcha_result

\* _perform_checkin returns and run (lines 492-496) logs the end of the flow.
PerformCheckin ==
    /\ pc = "returned"
    /\ checkin' = perform_checkin(result)
    /\ log' = log \cup {IF checkin' = "True" THEN "checkin_completed"
                        ELSE "checkin_failed"}
    /\ pc' = "done"
    /\ UNCHANGED <<attempt, widget, traffic, buffer, polls, grid, reply, clicked, plan,
                   submit, waited, verdict, result, outcomes, refreshLog, modelCalls>>

\* ------------------------------------------------------------ the notifier
\* The text of the log lines the model keeps, as sequences of words:
\*   "captcha" , "verify", "ok", "fail" stand for the words of lines 216, 223,
\*   239 and 430 that the success markers share with other messages;
\*   "checkin", "flow_done" for the words of lines 494 and 496.
LogLine(m) ==
    CASE m = "captcha_verified"       -> <<"tick", "captcha", "verify", "ok", "bang">>
      [] m = "closed_assumed_success" -> <<"captcha", "window_closed", "assume", "verify", "ok">>
      [] m = "api_success"            -> <<"tick", "api_returned", "verify", "ok">>
      [] m = "max_retries_reached"    -> <<"captcha", "verify", "fail", "max_retries_reached">>
      [] m = "widget_not_detected"    -> <<"not_detected", "geetest", "captcha", "window">>
      [] m = "checkin_completed"      -> <<"tick", "checkin", "flow_done">>
      [] m = "checkin_failed"         -> <<"checkin", "fail">>

\* needle in line, for one line of the log.
Contains(line, needle) ==
    \E i \in 0..(Len(line) - Len(needle)) :
        SubSeq(line, i + 1, i + Len(needle)) = needle

is_successLooseMut(l) == \E m \in l : Contains(LogLine(m), <<"checkin">>)

\* Line 39 of send_email.py, on the log of one run.
is_success(l) ==
    \E m \in l : \/ Contains(LogLine(m), <<"checkin", "flow_done">>)
                 \/ Contains(LogLine(m), <<"captcha", "verify", "ok">>)

\* ----------------------------------------------------------- specification
Next ==
    \/ StartSession
    \/ \E w \in {"visible", "hidden"} : PageChange(w)
    \/ \E r \in SessionRequests : ResponseArrives(r)
    \/ \E err \in BOOLEAN : DetectWidget(err)
    \/ \E img \in {"url", "nourl", "timeout", "error"} : LocateImage(img)
    \/ \E resp \in ModelResponses : RecognizeCaptcha(resp)
    \/ \E found \in BOOLEAN, failing \in SUBSET MatchingPositions(grid) :
          ClickCells(found, failing)
    \/ \E s \in SubmitStates : SubmitControl(s)
    \/ \E s \in SubmitStates : SubmitPoll(s)
    \/ \E err \in BOOLEAN : ClearRequests(err)
    \/ \E expired \in BOOLEAN : PollHead(expired)
    \/ ScanBuffer
    \/ CheckWidget
    \/ HandleVerdict
    \/ HandleException
    \/ RefreshCaptcha
    \/ NextAttempt
    \/ ExhaustedRetries
    \/ PerformCheckin

Spec == Init /\ [][Next]_vars

\* The steps of the program's one thread, as opposed to what the page and
\* the network do. Every call the thread waits in comes back: the waits of
\* lines 177-185 and 347 carry a timeout, the loops of lines 358 and 409
\* compare the clock with a bound, and the sleeps are finite.
ProgramStep ==
    \/ StartSession
    \/ \E err \in BOOLEAN : DetectWidget(err)
    \/ \E img \in {"url", "nourl", "timeout", "error"} : LocateImage(img)
    \/ \E resp \in ModelResponses : RecognizeCaptcha(resp)
    \/ \E found \in BOOLEAN, failing \in SUBSET MatchingPositions(grid) :
          ClickCells(found, failing)
    \/ \E s \in SubmitStates : SubmitControl(s)
    \/ \E s \in SubmitStates : SubmitPoll(s)
    \/ \E err \in BOOLEAN : ClearRequests(err)
    \/ \E expired \in BOOLEAN : PollHead(expired)
    \/ ScanBuffer
    \/ CheckWidget
    \/ HandleVerdict
    \/ HandleException
    \/ RefreshCaptcha
    \/ NextAttempt
    \/ ExhaustedRetries
    \/ PerformCheckin

\* The session with a thread that is never left waiting for ever, on a page
\* that keeps at most MaxFairBuf responses in driver.requests.
NextFair ==
    \/ ProgramStep
    \/ \E w \in {"visible", "hidden"} : PageChange(w)
    \/ \E r \in SessionRequests : Len(buffer) < MaxFairBuf /\ ResponseArrives(r)

SpecFair == Init /\ [][NextFair]_vars /\ WF_vars(ProgramStep)

\* ------------------------------------------- the click stage on any grid
\* The labels the vision model may give a cell: up to MaxLabelLen characters
\* out of a letter, its capital and white space.
LabelChars == {"c", "C", " "}

Labels == UNION {[1..n -> LabelChars] : n \in 0..MaxLabelLen}

\* The grids of the click stage: any label at positions 1 and 10, a label of
\* at most one character at position 2, the label c at position 3, and
\* possibly no entry at position 1 or 10.
SolverGrids ==
    {[i \in (1..10) \ absent |->
         IF i = 1 THEN l1
         ELSE IF i = 2 THEN l2
         ELSE IF i = 3 THEN <<"c">>
         ELSE IF i = 10 THEN l10
         ELSE <<"e">>] :
       l1 \in Labels, l2 \in {l \in Labels : Len(l) <= 1}, l10 \in Labels,
       absent \in {{}, {1}, {10}}}

\* Attempt 1 when _recognize_captcha has returned a grid (line 204).
InitSolver ==
    /\ pc = "click"
    /\ attempt = 1
    /\ widget = "visible"
    /\ traffic = FALSE
    /\ buffer = <<>>
    /\ polls = 0
    /\ grid \in SolverGrids
    /\ reply = "grid"
    /\ clicked = {}
    /\ plan = {}
    /\ submit = "none"
    /\ waited = 0
    /\ verdict = None
    /\ result = None
    /\ checkin = None
    /\ log = {}
    /\ outcomes = <<>>
    /\ refreshLog = <<>>
    /\ modelCalls = 1

NextSolver ==
    \/ \E found \in BOOLEAN, failing \in SUBSET MatchingPositions(grid) :
         ClickCells(found, failing)
    \/ \E s \in SubmitStates : SubmitControl(s)
    \/ \E s \in SubmitStates : SubmitPoll(s)
    \/ RefreshCaptcha
    \/ NextAttempt

SpecSolver == InitSolver /\ [][NextSolver]_vars

\* ------------------------------------- the polling loop on any one response
\* The polling loop of attempt 1 at its first scan: one captured request of
\* any shape, and possibly a second one that carries a verdict.
GoodBody(r) == Body(<<"geetest_", "d">>, "object", "success", "object", r)

InitPolling ==
    /\ pc = "scan"
    /\ attempt = 1
    /\ widget = "visible"
    /\ traffic = TRUE
    /\ \E p \in Payloads, u \in BOOLEAN, r \in BOOLEAN :
         \E rest \in {<<>>} \cup {<<Captured([url |-> TRUE, response |-> TRUE,
                                                body |-> GoodBody(v)], 1, "poll")>> :
                                   v \in {"success", "fail"}} :
            buffer = <<Captured([url |-> u, response |-> r, body |-> p], 1, "poll")>>
                     \o rest
    /\ polls = 1
    /\ grid = NoGrid
    /\ reply = "none"
    /\ clicked = {}
    /\ plan = {}
    /\ submit = "none"
    /\ waited = 0
    /\ verdict = None
    /\ result = None
    /\ checkin = None
    /\ log = {}
    /\ outcomes = <<>>
    /\ refreshLog = <<>>
    /\ modelCalls = 1

NextPolling ==
    \/ ScanBuffer
    \/ CheckWidget
    \/ \E expired \in BOOLEAN : PollHead(expired)

SpecPolling == InitPolling /\ [][NextPolling]_vars

\* ------------------------------------------------------------------ claims
Finished == pc \in {"returned", "done"}

Range(seq) == {seq[i] : i \in 1..Len(seq)}

Last(seq) == seq[Len(seq)]

DefinitiveFail == {"Fail", "Timeout"}

TransientAttemptFailure ==
    {"NoUrl", "RecognitionError", "EmptyPlan", "TooFewItems", "ClickError"}

\* C1: a finished session all of whose attempts ended in Fail or Timeout ran
\* exactly max_retries attempts and returned False after the
\* max-retries-reached log line; it did not end earlier or report success.
C1_AllDefinitiveFailExhausts ==
    (/\ Finished
     /\ outcomes # <<>>
     /\ \A i \in 1..Len(outcomes) : outcomes[i] \in DefinitiveFail)
    => /\ Len(outcomes) = max_retries
       /\ result = "False"
       /\ "max_retries_reached" \in log

\* C2: the step that handles a "timeout" verdict does what the step that
\* handles a "fail" verdict does: it goes to the refresh and returns nothing.
C2_TimeoutHandledLikeFail ==
    [][(pc = "handle" /\ verdict \in {"fail", "timeout"} /\ pc' # pc)
       => (pc' = "refresh" /\ result' = result)]_vars

\* C3: once the next attempt has begun, every earlier attempt that ended in
\* Fail, Timeout or a transient failure was followed by a refresh call.
C3_RefreshBeforeNextAttempt ==
    \A i \in 1..Len(outcomes) :
        (outcomes[i] \in DefinitiveFail \cup TransientAttemptFailure /\ attempt > i)
        => i \in Range(refreshLog)

\* C4: a finished session whose attempt 1 ended in a transient failure and
\* whose attempt 2 ended in Success returned True after exactly two attempts
\* and exactly one refresh call.
C4_TransientThenSuccess ==
    (/\ Finished
     /\ Len(outcomes) >= 2
     /\ outcomes[1] \in TransientAttemptFailure
     /\ outcomes[2] = "Success")
    => /\ Len(outcomes) = 2
       /\ attempt = 2
       /\ result = "True"
       /\ Len(refreshLog) = 1

\* C5 as stated: a session whose first attempt never detected the widget
\* returns a value other than the False of exhausted retries, and the caller
\* does not log the check-in as failed.
C5_NotPresentedIsDistinct ==
    (Finished /\ outcomes = <<"NotPresented">>)
    => /\ result # "False"
       /\ "checkin_failed" \notin log

\* C5 as amended: a session whose first attempt never detected the widget
\* ends at once, after that one attempt and with no refresh, and returns the
\* same False as exhausted retries; only the log line tells the two apart,
\* and the caller reports the check-in as failed.
C5_NotPresentedReturnsFalse ==
    (outcomes # <<>> /\ outcomes[1] = "NotPresented")
    => /\ Finished
       /\ outcomes = <<"NotPresented">>
       /\ attempt = 1
       /\ refreshLog = <<>>
       /\ result = "False"
       /\ "widget_not_detected" \in log
       /\ "max_retries_reached" \notin log
       /\ pc = "done" => /\ checkin = "False"
                         /\ "checkin_failed" \in log
                         /\ "checkin_completed" \notin log

C5_Witness == pc = "done" /\ outcomes = <<"NotPresented">> /\ checkin = "False"

\* C6: a session that finished before max_retries attempts were consumed,
\* its last attempt having no Success or Closed verdict, is a session whose
\* first attempt timed out waiting for the widget (or its image).
C6_OnlyFirstDetectionShortCircuits ==
    (/\ Finished
     /\ Len(outcomes) < max_retries
     /\ Last(outcomes) \notin {"Success", "Closed"})
    => /\ Len(outcomes) = 1
       /\ outcomes[1] \in {"NotPresented", "ImageTimeout"}

\* C7: once the loop has begun the attempt counter is in 1..max_retries and
\* counts the attempts begun; no step lowers it or moves it by more than one.
C7_AttemptCounterBounded ==
    /\ [](pc # "idle" => /\ attempt \in 1..max_retries
                         /\ Len(outcomes) \in {attempt - 1, attempt})
    /\ [][attempt' = attempt \/ attempt' = attempt + 1]_vars

C7_Witness ==
    /\ pc = "returned"
    /\ attempt = max_retries
    /\ Len(outcomes) = max_retries
    /\ result = "False"

\* C8: a widget check that finds the widget not visible ends the polling with
\* the verdict "closed"; the handler answers a "closed" or "success" verdict
\* by returning True at once; and an attempt that ended Closed or Success is
\* the session's last, with no refresh called in it.
C8_ClosedOrSuccessEndsSession ==
    /\ [][(pc = "widget" /\ pc' # pc /\ widget # "visible")
          => (verdict' = "closed" /\ pc' = "handle")]_vars
    /\ [][(pc = "handle" /\ pc' # pc /\ verdict \in {"closed", "success"})
          => /\ pc' = "returned"
             /\ result' = "True"
             /\ refreshLog' = refreshLog
             /\ attempt' = attempt]_vars
    /\ [](\A i \in 1..Len(outcomes) :
            outcomes[i] \in {"Closed", "Success"}
            => /\ i = Len(outcomes)
               /\ Finished
               /\ result = "True"
               /\ attempt = i
               /\ i \notin Range(refreshLog))

C8_Witness ==
    /\ pc = "returned"
    /\ Len(outcomes) = 2
    /\ outcomes[2] = "Closed"
    /\ result = "True"

\* The JSON of the body has status "success" and data.result r.
JsonSays(p, r) ==
    /\ p.json.kind = "object"
    /\ p.json.status = "success"
    /\ p.json.data = "object"
    /\ p.json.result = r

\* The identifier is "geetest_" and then one or more digits.
IsGeetestCallback(cb) ==
    /\ Len(cb) >= 2
    /\ cb[1] = "geetest_"
    /\ \A k \in 2..Len(cb) : cb[k] = "d"

FirstScanDone == pc # "scan"

\* C9 as stated: the first captured response being identifier(<json>) under
\* any identifier, with status "success" and data.result "success" or "fail",
\* the first scan ends the polling with that verdict.
C9_AnyCallbackYieldsVerdict ==
    \A r \in {"success", "fail"} :
        (/\ FirstScanDone
         /\ IsCandidate(buffer[1])
         /\ buffer[1].body.paren
         /\ buffer[1].body.cb # <<>>
         /\ buffer[1].body.cb[1] # "d"
         /\ JsonSays(buffer[1].body, r))
        => (pc = "handle" /\ verdict = r)

\* C9 as amended: the first captured response being geetest_<digits>(<json>)
\* on one line, with status "success" and data.result "success" or "fail",
\* the first scan ends the polling with that verdict.
C9_GeetestCallbackYieldsVerdict ==
    \A r \in {"success", "fail"} :
        (/\ FirstScanDone
         /\ IsCandidate(buffer[1])
         /\ buffer[1].body.paren
         /\ buffer[1].body.oneline
         /\ IsGeetestCallback(buffer[1].body.cb)
         /\ JsonSays(buffer[1].body, r))
        => (pc = "handle" /\ verdict = r)

C9_Witness ==
    /\ pc = "handle"
    /\ verdict = "fail"
    /\ Len(buffer) = 1
    /\ IsGeetestCallback(buffer[1].body.cb)
    /\ buffer[1].body.oneline
    /\ JsonSays(buffer[1].body, "fail")

\* The shapes of a body that carry no verdict.
BadShape(p) ==
    \/ ~p.paren
    \/ p.json.kind # "object"
    \/ p.json.status # "success"
    \/ p.json.data # "object"
    \/ p.json.result \notin {"success", "fail"}

\* C10: the first captured response being a candidate of a shape that carries
\* no verdict, the scan goes past it: the polling ends with the verdict of
\* the request behind it or, there being none, goes on to the widget check
\* and the next cycle until the timeout; the session's attempt counter,
\* outcomes, refresh calls, result and captured requests stay as they were.
C10_BadCandidateIsSkipped ==
    (IsCandidate(buffer[1]) /\ BadShape(buffer[1].body))
    => /\ attempt = 1 /\ outcomes = <<>> /\ refreshLog = <<>> /\ result = None
       /\ Len(buffer) \in 1..2
       /\ Len(buffer) = 2 =>
            /\ FirstScanDone => pc = "handle"
            /\ verdict \in {None, buffer[2].body.json.result}
            /\ pc = "handle" => verdict = buffer[2].body.json.result
       /\ Len(buffer) = 1 =>
            /\ verdict \in {None, "timeout"}
            /\ pc = "handle" => (verdict = "timeout" /\ polls >= 1)

C10_Witness ==
    /\ pc = "handle"
    /\ Len(buffer) = 2
    /\ IsCandidate(buffer[1])
    /\ buffer[1].body.paren
    /\ buffer[1].body.json.status = "error"
    /\ buffer[1].body.json.result = "success"
    /\ verdict = "fail"

\* The request is a candidate whose body carries the verdict r.
Carries(req, r) ==
    /\ IsCandidate(req)
    /\ req.body.paren
    /\ req.body.oneline
    /\ IsGeetestCallback(req.body.cb)
    /\ JsonSays(req.body, r)

Definitive(req) == \E r \in {"success", "fail"} : Carries(req, r)

\* C11: a pass over the captured requests ends the polling with the verdict
\* of the first request, in arrival order, that carries one, whatever comes
\* before or after it; with no such request it goes on to the widget check.
C11_FirstDefinitiveWins ==
    [][(pc = "scan" /\ pc' # pc)
       => IF \E k \in 1..Len(buffer) : Definitive(buffer[k])
          THEN LET first == CHOOSE k \in 1..Len(buffer) :
                              /\ Definitive(buffer[k])
                              /\ \A j \in 1..(k - 1) : ~Definitive(buffer[j])
               IN  pc' = "handle" /\ Carries(buffer[first], verdict')
          ELSE pc' = "widget" /\ verdict' = verdict]_vars

C11_Witness ==
    /\ pc = "handle"
    /\ Len(buffer) = 2
    /\ ~Definitive(buffer[1])
    /\ IsCandidate(buffer[1])
    /\ Carries(buffer[2], "fail")
    /\ verdict = "fail"

\* C12: while an attempt polls, driver.requests holds only requests captured
\* since the clear of that attempt, and a verdict read from a response is
\* the verdict of a request captured in the attempt that reads it.
C12_ClearThenObserve ==
    /\ pc \in {"poll", "scan", "widget"}
         => \A i \in 1..Len(buffer) :
              buffer[i].at = attempt /\ buffer[i].by = "poll"
    /\ (pc = "handle" /\ verdict \in {"success", "fail"})
         => \E i \in 1..Len(buffer) :
              /\ buffer[i].at = attempt
              /\ Carries(buffer[i], verdict)
              /\ \A j \in 1..(i - 1) : ~Definitive(buffer[j])

\* Attempt 1 ended on a Fail response, which attempt 2 found in the buffer
\* and cleared; attempt 2 has read its own Success.
C12_Witness ==
    /\ attempt = 2
    /\ outcomes = <<"Fail">>
    /\ pc = "handle"
    /\ verdict = "success"

\* The label without its leading and trailing white space: the one slice of
\* s between two runs of spaces that does not begin or end with a space.
Trimmed(s) ==
    LET Spaces(a, b) == \A k \in a..b : s[k] = " "
        e == CHOOSE e \in (1..(Len(s) + 1)) \X (0..Len(s)) :
               /\ e[1] <= e[2] + 1
               /\ Spaces(1, e[1] - 1)
               /\ Spaces(e[2] + 1, Len(s))
               /\ e[1] <= e[2] => (s[e[1]] # " " /\ s[e[2]] # " ")
    IN  SubSeq(s, e[1], e[2])

ReferenceBlank(g) == 10 \notin DOMAIN g \/ Trimmed(g[10]) = <<>>

\* The positions 1..9 whose trimmed label is the trimmed reference label.
ExactMatches(g) ==
    {i \in 1..9 : i \in DOMAIN g /\ 10 \in DOMAIN g
                  /\ Trimmed(g[i]) = Trimmed(g[10])}

\* The click stage of attempt 1 is over.
CellStageDone ==
    attempt = 1 /\ pc \in {"submit", "submit_poll", "clear", "refresh", "next"}

C14_EmptyPlanRefreshes ==
    /\ (attempt = 1 /\ pc # "click"
        /\ (ReferenceBlank(grid) \/ ExactMatches(grid) = {}))
         => /\ plan = {} /\ clicked = {} /\ submit = "none"
            /\ pc \in {"refresh", "next"}
            /\ outcomes \in {<<"EmptyPlan">>, <<"TooFewItems">>}
            /\ ReferenceBlank(grid) => outcomes = <<"EmptyPlan">>
    /\ outcomes = <<"EmptyPlan">>
         => \/ pc = "refresh" /\ attempt = 1 /\ refreshLog = <<>>
            \/ pc = "next" /\ attempt = 1 /\ refreshLog = <<1>>
            \/ pc = "detect" /\ attempt = 2 /\ refreshLog = <<1>>

C14_Witness ==
    /\ attempt = 2
    /\ pc = "detect"
    /\ outcomes = <<"EmptyPlan">>
    /\ refreshLog = <<1>>

\* C15 as stated: a grid that recognition returned has an entry for each of
\* the positions 1..10, and none of them is the empty string.
C15_AllTenEntriesPresent ==
    pc = "click" => \A k \in 1..10 : k \in DOMAIN grid /\ grid[k] # <<>>

\* C15, amended: a grid that recognition returned has at least one entry;
\* which entries it has, and what they hold, is not looked at.
C15_GridIsNonEmptyObject ==
    pc \in {"click", "submit", "submit_poll", "clear"} => DOMAIN grid # {}

\* The click stage starts on a grid without the reference entry.
C15_Witness ==
    /\ pc = "click"
    /\ DOMAIN grid = 1..9

\* C16: a session that has entered handle_geetest_captcha comes to the point
\* where the handler has returned True or False, within max_retries attempts
\* and with every error of an attempt accounted for as an outcome.
C16_SessionTerminates ==
    (pc = "detect" /\ attempt = 1)
        ~> (/\ pc = "returned"
            /\ result \in {"True", "False"}
            /\ attempt \in 1..max_retries
            /\ Len(outcomes) = attempt)

\* The handler has returned False after max_retries attempts, the last of
\* which ended in the except clause of lines 229-237.
C16_Witness ==
    /\ pc = "returned"
    /\ result = "False"
    /\ attempt = max_retries
    /\ Last(outcomes) = "Error"

\* C17: the step that leaves the buffer clear keeps, for the polling that
\* follows, every Success or Fail response captured in the current attempt
\* after its submit click.
C17_SubmitResponsesSurviveClear ==
    [][(pc = "clear" /\ pc' # pc)
       => \A i \in 1..Len(buffer) :
            (buffer[i].at = attempt /\ buffer[i].by = "submit"
             /\ Definitive(buffer[i]))
                => \E j \in 1..Len(buffer') : buffer'[j] = buffer[i]]_vars

\* C20 as stated: a submit control is clicked only after it has been seen
\* enabled; one that is still disabled is never clicked.
C20_ClickedOnlyWhenEnabled == submit # "disabled"

\* C20, amended: the submit control is clicked when a look at it finds it
\* enabled, and a control last seen disabled is clicked only when the bound
\* of the loop has passed.
C20_DisabledClickedOnlyAtExpiry ==
    [][(submit = "none" /\ submit' \in {"enabled", "disabled"})
       => \/ submit' = "enabled" /\ pc \in {"submit", "submit_poll"}
          \/ /\ submit' = "disabled"
             /\ pc = "submit_poll"
             /\ waited = MaxSubmitPolls]_vars

\* The control was disabled at every look, and has been clicked.
C20_Witness ==
    /\ pc = "clear"
    /\ submit = "disabled"
    /\ clicked # {}

\* The stages of one attempt, in the order of lines 177-224, and the places
\* an attempt goes to when it is over.
StageAfter(p) ==
    CASE p = "detect"      -> {"image"}
      [] p = "image"       -> {"recognize"}
      [] p = "recognize"   -> {"click"}
      [] p = "click"       -> {"submit"}
      [] p = "submit"      -> {"submit_poll", "clear"}
      [] p = "submit_poll" -> {"submit_poll", "clear"}
      [] p = "clear"       -> {"poll", "handle"}
      [] p = "poll"        -> {"scan", "handle"}
      [] p = "scan"        -> {"widget", "handle"}
      [] p = "widget"      -> {"poll", "handle"}
      [] OTHER             -> {}

AttemptOver == {"refresh", "except", "next", "returned"}

\* C18: a step of an attempt goes to the stage that follows its own, or ends
\* the attempt; cells are clicked only at the click stage and on a grid, the
\* submit control only after the cell loop has clicked a cell, the buffer is
\* cleared and polled only after the submit stage, and an attempt that is
\* over clicks, submits, clears and polls nothing more.
C18_StepsInOrder ==
    [][/\ (StageAfter(pc) # {} /\ pc' # pc)
            => pc' \in StageAfter(pc) \cup AttemptOver
       /\ pc' = "click" => grid' # NoGrid
       /\ clicked' \notin {clicked, {}} => (pc = "click" /\ grid # NoGrid)
       /\ submit' \in {"enabled", "disabled"} \ {submit}
            => (pc \in {"submit", "submit_poll"} /\ clicked # {})
       /\ (buffer # <<>> /\ buffer' = <<>>)
            => (pc = "clear" /\ pc' = "poll" /\ clicked # {})
       /\ polls' > polls => (pc = "poll" /\ pc' = "scan")
       /\ outcomes' # outcomes => pc' \in AttemptOver
       /\ pc \in {"refresh", "except", "next"}
            => /\ pc' \in {pc, "refresh", "next", "detect", "returned"}
               /\ clicked' \in {clicked, {}}
               /\ submit' \in {submit, "none"}
               /\ polls' \in {polls, 0}
               /\ buffer' = buffer \/ pc' = pc
               /\ pc' = "detect" => attempt' = attempt + 1]_vars

\* The attempt has gone through every stage, up to a verdict read from a
\* response.
C18_Witness ==
    /\ pc = "handle"
    /\ polls > 0
    /\ verdict = "fail"
    /\ buffer # <<>>

\* C19: when the submit control has been clicked, a click has been
\* dispatched to every position the click loop selected.
C19_SubmitOnlyFullPlan ==
    submit \in {"enabled", "disabled"} => clicked = plan

\* C21: when the submit control is not there after the cell clicks, or is
\* lost while its class is polled, the attempt is not over: it stands before
\* the buffer clear, with no outcome recorded and no refresh made for it.
C21_NoSubmitControlIsNoError ==
    submit \in {"absent", "vanished"}
        => /\ pc = "clear"
           /\ Len(outcomes) = attempt - 1
           /\ attempt \notin Range(refreshLog)

\* The attempts before attempt n that ended with outcome kind k.
Ended(k, n) == {i \in 1..(n - 1) : i <= Len(outcomes) /\ outcomes[i] = k}

\* C22: when the reply of the vision model does not start with "{" or is not
\* JSON, the attempt ends as a recognition error with one model call made in
\* it (every earlier attempt made one call at most, and one exactly unless it
\* ended before recognition), no cell and no submit control clicked, and one
\* refresh, after which the loop goes on; and every earlier attempt that
\* ended as a recognition error was refreshed once.
C22_InvalidFormatRefreshesOnce ==
    /\ reply \in {"no_brace", "bad_json"}
         => /\ pc \in {"refresh", "next"}
            /\ Len(outcomes) = attempt
            /\ Last(outcomes) = "RecognitionError"
            /\ grid = NoGrid /\ clicked = {} /\ plan = {} /\ submit = "none"
            /\ modelCalls <= attempt - Cardinality(Ended("NoUrl", attempt))
            /\ modelCalls >= attempt - Cardinality(Ended("NoUrl", attempt))
                                     - Cardinality(Ended("Error", attempt))
            /\ Cardinality({j \in 1..Len(refreshLog) : refreshLog[j] = attempt})
                 = IF pc = "next" THEN 1 ELSE 0
    /\ \A i \in Ended("RecognitionError", attempt) :
         Cardinality({j \in 1..Len(refreshLog) : refreshLog[j] = i}) = 1

\* Attempt 2 follows an attempt that ended as a recognition error, and has
\* itself got a reply that does not start with "{"; it has been refreshed.
C22_Witness ==
    /\ attempt = 2
    /\ outcomes = <<"RecognitionError", "RecognitionError">>
    /\ reply = "no_brace"
    /\ pc = "next"
    /\ modelCalls = 2
    /\ refreshLog = <<1, 2>>

\* C23: the notifier reads a finished run as a success exactly when
\* _perform_checkin returned True; no success marker is in the log before
\* the handler has returned True, and none ever when the session has ended
\* with the widget not presented or with the attempts used up.
C23_NotifierMatchesOutcome ==
    /\ pc = "done" => (is_success(log) <=> checkin = "True")
    /\ is_success(log) => result = "True"
    /\ ("max_retries_reached" \in log \/ outcomes = <<"NotPresented">>)
         => ~is_success(log)

\* A run that used up its attempts and was reported as failed.
C23_Witness ==
    /\ pc = "done"
    /\ "max_retries_reached" \in log
    /\ checkin = "False"
    /\ ~is_success(log)

====
